---- MODULE Spec2Model ----
(***************************************************************************)
(* simanager: the simulation-lifecycle state tracker (SimulationStudy) and *)
(* the local executor (job_run_local).                                     *)
(*                                                                         *)
(* A case is named by its index: i stands for the i-th folder name that    *)
(* initialize_folders registered; distinct indices are distinct names.     *)
(* Name 0 (Ghost) is a folder name that was never registered.              *)
(***************************************************************************)
EXTENDS Integers, Sequences, FiniteSets, TLC

\* ---------------------------------------------------------------- bounds
MaxCases == 2          \* cases of the study in the StudyState specification
MaxMarkers == 2        \* sentinel files present at once in remote_touch_files
MaxLocalCases == 3     \* cases of the study in the job_run_local specification
MaxPool == 2           \* largest n_concurrent_jobs / number of GPUs
MaxParams == 3         \* declared ParameterInspection objects of a study
MaxChain == 3          \* keys in the key chain given to update_nested_dict
MaxValues == 2         \* values of one declared parameter

\* ------------------------------------------------------------- constants
Ghost == 0
NoOne == 0             \* the manager lock is free

Statuses == {"not_started", "running", "finished", "interrupted", "error"}
MarkerKinds == {"FINISHED", "ERROR", "IO_ERROR"}

VARIABLES
    cases,      \* the folder names registered by initialize_folders
    info,       \* simulation_info.yaml: status -> list of case names
    config,     \* per case, the simulation_status field of its config document
    markers,    \* remote_touch_files: set of <<kind, case>>
    folder,     \* per case, the content of its folder under scan/
    parameters_inspected,  \* the declared ParameterInspection list
    combinations,          \* yield_parameter_combinations: the axes built
    current_idx,           \* yield_parameter_combinations: position per axis
    yielded,               \* the cases the generator has yielded so far
    genPc,                 \* position of the generator
    nested_dict,           \* update_nested_dict: the dictionary it is given
    table,                 \* initialize_folders: the rows of the information table
    test_case,             \* the study's test_case: whether it overrides a key
    lastCall,   \* the operation of the study just called, with its sim_name
    raised,     \* whether that call raised ValueError
    gpuList,    \* job_run_local: gpu_available_list
    poolSize,   \* job_run_local: n_concurrent_jobs
    driverPc,   \* job_run_local: position of the driving process
    drvInfo,    \* job_run_local: the driver's in-memory simulation_info
    shared,     \* job_run_local: the manager-backed shared lists
    runFlag,    \* job_run_local: shared_sim_status["run_flag"]
    lock,       \* job_run_local: owner of manager.Lock()
    queue,      \* job_run_local: per pool, the tasks not yet taken
    wk,         \* job_run_local: per worker process, its position and locals
    outcome,    \* job_run_local: per case, how its child process ended
    ndone       \* job_run_local: tasks whose command_executor returned

engineVars == <<parameters_inspected, combinations, current_idx, yielded, genPc>>
docVars == <<nested_dict, table, test_case>>
studyVars == <<cases, info, config, markers, folder, lastCall, raised, engineVars,
               docVars>>
localVars == <<gpuList, poolSize, driverPc, drvInfo, shared, runFlag, lock,
               queue, wk, outcome, ndone>>
vars == <<cases, info, config, markers, folder, lastCall, raised, engineVars, docVars, gpuList, poolSize,
          driverPc, drvInfo, shared, runFlag, lock, queue, wk, outcome, ndone>>

\* ------------------------------------------------------- list operations
Contains(s, x) == \E i \in DOMAIN s : s[i] = x

RECURSIVE Remove(_, _)
\* list.remove(x): drops the first occurrence
Remove(s, x) ==
    IF s = <<>> THEN <<>>
    ELSE IF Head(s) = x THEN Tail(s)
    ELSE <<Head(s)>> \o Remove(Tail(s), x)

Range(s) == {s[i] : i \in DOMAIN s}

NoCall == [op |-> "none", sim_name |-> Ghost]

NoDup(s) == \A i, j \in DOMAIN s : i # j => s[i] # s[j]

EmptyInfo == [s \in Statuses |-> <<>>]

RECURSIVE SeqOfSet(_)
\* the elements of a set of integers in increasing order
SeqOfSet(S) ==
    IF S = {} THEN <<>>
    ELSE LET m == CHOOSE x \in S : \A y \in S : x <= y
         IN <<m>> \o SeqOfSet(S \ {m})

\* ------------------------------------------------------- set_sim_status
\* the list that holds sim_name, looked up in the order of the if/elif chain
PrevLoc(inf, sim_name) ==
    IF Contains(inf["not_started"], sim_name) THEN "not_started"
    ELSE IF Contains(inf["running"], sim_name) THEN "running"
    ELSE IF Contains(inf["finished"], sim_name) THEN "finished"
    ELSE IF Contains(inf["interrupted"], sim_name) THEN "interrupted"
    ELSE IF Contains(inf["error"], sim_name) THEN "error"
    ELSE "none"

MoveNoRemove(inf, sim_name, status) ==
    [inf EXCEPT ![status] = Append(@, sim_name)]

MoveNoAppend(inf, sim_name, status) ==
    [inf EXCEPT ![PrevLoc(inf, sim_name)] = Remove(@, sim_name)]

\* remove from the list that holds it, append to sim_<status>
Move(inf, sim_name, status) ==
    LET removed == [inf EXCEPT ![PrevLoc(inf, sim_name)] = Remove(@, sim_name)]
    IN [removed EXCEPT ![status] = Append(@, sim_name)]

set_sim_status_unchecked(inf, cfg, sim_name, status) ==
    [info |-> MoveNoRemove(inf, sim_name, status),
     config |-> IF sim_name \in DOMAIN cfg
                THEN [cfg EXCEPT ![sim_name] = status] ELSE cfg,
     raised |-> FALSE]

\* the whole of set_sim_status on the file contents it reads: what it writes
\* back, and whether it raised before writing anything
set_sim_status(inf, cfg, sim_name, status) ==
    IF PrevLoc(inf, sim_name) = "none"
    THEN [info |-> inf, config |-> cfg, raised |-> TRUE]
    ELSE [info |-> Move(inf, sim_name, status),
          config |-> [cfg EXCEPT ![sim_name] = status],
          raised |-> FALSE]

\* ------------------------------------------------ _update_remote_status
RemoteVerdictFinishedOnly(mk, sim) ==
    IF <<"FINISHED", sim>> \in mk THEN "finished" ELSE "none"

RemoteVerdictErrorFirst(mk, sim) ==
    IF <<"ERROR", sim>> \in mk THEN "error"
    ELSE IF <<"FINISHED", sim>> \in mk THEN "finished"
    ELSE "none"

\* the status the marker files give to sim: FINISHED_, then ERROR_, then IO_ERROR_
RemoteVerdict(mk, sim) ==
    IF <<"FINISHED", sim>> \in mk THEN "finished"
    ELSE IF <<"ERROR", sim>> \in mk THEN "error"
    ELSE IF <<"IO_ERROR", sim>> \in mk THEN "error"
    ELSE "none"

RECURSIVE UpdateLoop(_, _, _, _)
\* for sim in sim_to_check: set_sim_status(sim, verdict) when a marker exists
UpdateLoop(todo, inf, cfg, mk) ==
    IF todo = <<>> THEN [info |-> inf, config |-> cfg]
    ELSE LET sim == Head(todo)
             v == RemoteVerdict(mk, sim)
             r == IF v = "none"
                  THEN [info |-> inf, config |-> cfg, raised |-> FALSE]
                  ELSE set_sim_status(inf, cfg, sim, v)
         IN UpdateLoop(Tail(todo), r.info, r.config, mk)

update_remote_status_all(inf, cfg, mk) ==
    UpdateLoop(inf["not_started"] \o inf["running"] \o inf["finished"]
                   \o inf["error"] \o inf["interrupted"], inf, cfg, mk)

update_remote_status(inf, cfg, mk) ==
    UpdateLoop(inf["not_started"] \o inf["running"], inf, cfg, mk)

\* ----------------------------------------------------------- case folders
\* The study has one axis. What is tracked of a case folder: the value its
\* config document holds for the axis key, and whether the rest of the folder
\* is still the clone of original_folder.
TemplateValue == 0

\* simulation_combos[case]: the axis value of the combination of the case
simulation_combos(c) == c

TemplateFolder == [axis |-> TemplateValue, rest |-> "template"]

\* update_nested_dict(parameters, key_chain, value) for the axis key
update_nested_dict(doc, value) == [doc EXCEPT !.axis = value]

\* the case folder initialize_folders creates: the clone of original_folder
\* with the combination written into the config document
CaseFolder(c) == update_nested_dict(TemplateFolder, simulation_combos(c))

\* ------------------------------------------------------------ StudyState
\* the state initialize_folders writes: every case in sim_not_started, every
\* config document with simulation_status = not_started, no marker file
InitialInfo(n) == [EmptyInfo EXCEPT !["not_started"] = [i \in 1..n |-> i]]

\* no dictionary is being updated and no information table is written
DocsOff ==
    /\ nested_dict = <<>>
    /\ table = <<>>
    /\ test_case = FALSE

\* no generator of parameter combinations exists
EngineOff ==
    /\ parameters_inspected = <<>>
    /\ combinations = <<>>
    /\ current_idx = <<>>
    /\ yielded = <<>>
    /\ genPc = "off"

IdleLocal ==
    /\ gpuList = <<>>
    /\ poolSize = 0
    /\ driverPc = "off"
    /\ drvInfo = EmptyInfo
    /\ shared = EmptyInfo
    /\ runFlag = 1
    /\ lock = NoOne
    /\ queue = <<>>
    /\ wk = <<>>
    /\ outcome = <<>>
    /\ ndone = 0

Init ==
    /\ cases = 1..MaxCases
    /\ info = InitialInfo(MaxCases)
    /\ config = [c \in 1..MaxCases |-> "not_started"]
    /\ markers = {}
    /\ folder = [c \in 1..MaxCases |-> CaseFolder(c)]
    /\ lastCall = NoCall
    /\ raised = FALSE
    /\ EngineOff
    /\ DocsOff
    /\ IdleLocal

\* a call of set_sim_status by the API user or the CLI
SetSimStatus(sim_name, status) ==
    /\ LET r == set_sim_status(info, config, sim_name, status)
       IN /\ info' = r.info
          /\ config' = r.config
          /\ raised' = r.raised
    /\ lastCall' = [op |-> "set_sim_status", sim_name |-> sim_name]
    /\ UNCHANGED <<cases, engineVars, docVars, folder, markers>>
    /\ UNCHANGED localVars

\* the remote job touches FINISHED_<case>, ERROR_<case> or IO_ERROR_<case>
RemoteTouch(kind, sim) ==
    /\ <<kind, sim>> \notin markers
    /\ Cardinality(markers) < MaxMarkers
    /\ markers' = markers \cup {<<kind, sim>>}
    /\ lastCall' = NoCall
    /\ raised' = FALSE
    /\ UNCHANGED <<cases, engineVars, docVars, folder, info, config>>
    /\ UNCHANGED localVars

\* a call of _update_remote_status (print_sim_status)
UpdateRemoteStatus ==
    /\ LET r == update_remote_status(info, config, markers)
       IN /\ info' = r.info
          /\ config' = r.config
    /\ lastCall' = [op |-> "update_remote_status", sim_name |-> Ghost]
    /\ raised' = FALSE
    /\ UNCHANGED <<cases, engineVars, docVars, folder, markers>>
    /\ UNCHANGED localVars

Next ==
    \/ \E n \in cases \cup {Ghost}, s \in Statuses : SetSimStatus(n, s)
    \/ \E k \in MarkerKinds, c \in cases : RemoteTouch(k, c)
    \/ UpdateRemoteStatus

Spec == Init /\ [][Next]_vars

\* --------------------------------------------------------- job_run_local
\* Worker i of the CPU pool serves the one task list (pool key -1); in GPU
\* mode pool i is the one-worker pool made for the i-th key of argument_dict.
Workers == 1..MaxPool

GpuMode == gpuList # <<>>

NWorkersOneMore == IF GpuMode THEN Len(gpuList) ELSE poolSize + 1

\* Pool(n_concurrent_jobs), or one Pool(1) per key of argument_dict
NWorkers == IF GpuMode THEN Len(gpuList) ELSE poolSize

PoolOf(w) == IF GpuMode THEN gpuList[w] ELSE -1

IdleWorker == [pc |-> "idle", sim |-> Ghost, gpu |-> -1,
               target |-> "none", rd |-> EmptyInfo]

NTasks == Len(drvInfo["not_started"])

RECURSIVE BuildArgs(_, _, _, _)
\* argument_dict[i % n].append((..., sim, gpu_available_list[i % n], ...)) for
\* the i-th simulation; a key that argument_dict lacks raises KeyError
BuildArgs(sims, i, gl, d) ==
    IF sims = <<>> THEN [ok |-> TRUE, dict |-> d]
    ELSE LET gpu_idx == i % Len(gl)
         IN IF gpu_idx \notin DOMAIN d
            THEN [ok |-> FALSE, dict |-> d]
            ELSE BuildArgs(Tail(sims), i + 1, gl,
                     [d EXCEPT ![gpu_idx] =
                         Append(@, [sim |-> Head(sims), gpu |-> gl[gpu_idx + 1]])])

ArgumentsOneGpu(sims, gl) ==
    IF gl = <<>>
    THEN [ok |-> TRUE,
          dict |-> [k \in {-1} |-> [i \in DOMAIN sims |-> [sim |-> sims[i], gpu |-> -1]]]]
    ELSE LET a == BuildArgs(sims, 0, gl, [k \in Range(gl) |-> <<>>])
         IN [ok |-> a.ok,
             dict |-> [k \in DOMAIN a.dict |->
                          [i \in DOMAIN a.dict[k] |->
                              [sim |-> a.dict[k][i].sim, gpu |-> gl[1]]]]]

\* the argument lists handed to the pool(s)
Arguments(sims, gl) ==
    IF gl = <<>>
    THEN [ok |-> TRUE,
          dict |-> [k \in {-1} |-> [i \in DOMAIN sims |-> [sim |-> sims[i], gpu |-> -1]]]]
    ELSE BuildArgs(sims, 0, gl, [k \in Range(gl) |-> <<>>])

\* the driver reads simulation_info.yaml, makes the shared lists, the lock and
\* the argument lists and starts the pool(s)
Launch ==
    /\ driverPc = "start"
    /\ drvInfo' = info
    /\ shared' = info
    /\ runFlag' = 1
    /\ LET a == Arguments(info["not_started"], gpuList)
       IN IF a.ok
          THEN /\ queue' = a.dict
               /\ driverPc' = "wait"
          ELSE /\ queue' = queue
               /\ driverPc' = "crashed"
    /\ UNCHANGED <<gpuList, poolSize, lock, wk, outcome, ndone>>
    /\ UNCHANGED studyVars

DriverWaiting == driverPc \in {"wait", "setflag", "raise", "wait2"}

\* the pool hands the next task of its list to a free worker; the free
\* workers of one pool are interchangeable, the lowest takes it. map_async
\* cuts the list into chunks of ceil(len / (4 * processes)) tasks, one task
\* each up to 4 tasks per process; a worker runs one task at a time either way
TakeTask(w) ==
    /\ DriverWaiting
    /\ w <= NWorkers
    /\ wk[w].pc = "idle"
    /\ queue[PoolOf(w)] # <<>>
    /\ \A v \in 1..(w - 1) : PoolOf(v) = PoolOf(w) => wk[v].pc # "idle"
    /\ LET t == Head(queue[PoolOf(w)])
       IN wk' = [wk EXCEPT ![w] = [@ EXCEPT !.pc = "check", !.sim = t.sim, !.gpu = t.gpu]]
    /\ queue' = [queue EXCEPT ![PoolOf(w)] = Tail(@)]
    /\ UNCHANGED <<gpuList, poolSize, driverPc, drvInfo, shared, runFlag, lock,
                   outcome, ndone>>
    /\ UNCHANGED studyVars

\* execute_command: if run_flag == 0, skip the simulation
CheckFlag(w) ==
    /\ wk[w].pc = "check"
    /\ IF runFlag = 0
       THEN /\ wk' = [wk EXCEPT ![w] = IdleWorker]
            /\ ndone' = ndone + 1
       ELSE /\ wk' = [wk EXCEPT ![w] = [@ EXCEPT !.pc = "acq", !.target = "running"]]
            /\ ndone' = ndone
    /\ UNCHANGED <<gpuList, poolSize, driverPc, drvInfo, shared, runFlag, lock,
                   queue, outcome>>
    /\ UNCHANGED studyVars

LockFreeNoLock(w) == TRUE

\* with lock: blocks until no other process holds the manager lock
LockFree(w) == lock = NoOne

\* the list a worker's transition takes the case from
SourceOf(target) == IF target = "running" THEN "not_started" ELSE "running"

\* with lock: simulation_info[source].remove(simulation_name)
AcquireAndRemove(w) ==
    /\ wk[w].pc = "acq"
    /\ LockFree(w)
    /\ Contains(shared[SourceOf(wk[w].target)], wk[w].sim)
    /\ lock' = w
    /\ shared' = [shared EXCEPT ![SourceOf(wk[w].target)] = Remove(@, wk[w].sim)]
    /\ wk' = [wk EXCEPT ![w] = [@ EXCEPT !.pc = "app"]]
    /\ UNCHANGED <<gpuList, poolSize, driverPc, drvInfo, runFlag, queue, outcome, ndone>>
    /\ UNCHANGED studyVars

\* simulation_info[target].append(simulation_name)
AppendShared(w) ==
    /\ wk[w].pc = "app"
    /\ shared' = [shared EXCEPT ![wk[w].target] = Append(@, wk[w].sim)]
    /\ wk' = [wk EXCEPT ![w] = [@ EXCEPT !.pc = "read"]]
    /\ UNCHANGED <<gpuList, poolSize, driverPc, drvInfo, runFlag, lock, queue,
                   outcome, ndone>>
    /\ UNCHANGED studyVars

\* set_sim_status: yaml.safe_load(simulation_info.yaml)
ReadInfo(w) ==
    /\ wk[w].pc = "read"
    /\ PrevLoc(info, wk[w].sim) # "none"
    /\ wk' = [wk EXCEPT ![w] = [@ EXCEPT !.pc = "wcfg", !.rd = info]]
    /\ UNCHANGED <<gpuList, poolSize, driverPc, drvInfo, shared, runFlag, lock,
                   queue, outcome, ndone>>
    /\ UNCHANGED studyVars

\* set_sim_status: parameters["simulation_status"] = status, dumped
WriteConfig(w) ==
    /\ wk[w].pc = "wcfg"
    /\ config' = [config EXCEPT ![wk[w].sim] = wk[w].target]
    /\ wk' = [wk EXCEPT ![w] = [@ EXCEPT !.pc = "winfo"]]
    /\ UNCHANGED <<cases, engineVars, docVars, folder, info, markers, lastCall, raised>>
    /\ UNCHANGED <<gpuList, poolSize, driverPc, drvInfo, shared, runFlag, lock,
                   queue, outcome, ndone>>

\* set_sim_status: the moved lists are dumped to simulation_info.yaml; the
\* with-block ends and releases the lock; then the child runs, or the task ends
WriteInfoAndRelease(w) ==
    /\ wk[w].pc = "winfo"
    /\ info' = Move(wk[w].rd, wk[w].sim, wk[w].target)
    /\ lock' = IF lock = w THEN NoOne ELSE lock
    /\ IF wk[w].target = "running"
       THEN /\ wk' = [wk EXCEPT ![w] = [@ EXCEPT !.pc = "run", !.rd = EmptyInfo]]
            /\ outcome' = [outcome EXCEPT ![wk[w].sim] = "started"]
            /\ ndone' = ndone
       ELSE /\ wk' = [wk EXCEPT ![w] = IdleWorker]
            /\ outcome' = outcome
            /\ ndone' = ndone + 1
    /\ UNCHANGED <<cases, engineVars, docVars, folder, config, markers, lastCall, raised>>
    /\ UNCHANGED <<gpuList, poolSize, driverPc, drvInfo, shared, runFlag, queue>>

ExitTargetAllFinished(how) == "finished"

\* the branch of try/except/else that the end of subprocess.run selects
ExitTarget(how) ==
    IF how = "exit0" THEN "finished"
    ELSE IF how = "exit1" THEN "error"
    ELSE "interrupted"

\* subprocess.run returns (exit code 0) or raises CalledProcessError (nonzero)
ChildExit(w, how) ==
    /\ wk[w].pc = "run"
    /\ outcome' = [outcome EXCEPT ![wk[w].sim] = how]
    /\ wk' = [wk EXCEPT ![w] = [@ EXCEPT !.pc = "acq", !.target = ExitTarget(how)]]
    /\ UNCHANGED <<gpuList, poolSize, driverPc, drvInfo, shared, runFlag, lock,
                   queue, ndone>>
    /\ UNCHANGED studyVars

\* SIGINT reaches the worker while it is in subprocess.run, where it spends
\* its time: except KeyboardInterrupt
WorkerInterrupt(w) == ChildExit(w, "sigint")

AllDone == ndone = NTasks

\* result.get() / pool.join() return once every task has returned
WaitReturns ==
    /\ driverPc \in {"wait", "wait2"}
    /\ AllDone
    /\ driverPc' = "final"
    /\ UNCHANGED <<gpuList, poolSize, drvInfo, shared, runFlag, lock, queue, wk,
                   outcome, ndone>>
    /\ UNCHANGED studyVars

\* KeyboardInterrupt in the driver while it waits for the pool(s)
DriverInterrupt ==
    /\ driverPc = "wait"
    /\ driverPc' = "setflag"
    /\ UNCHANGED <<gpuList, poolSize, drvInfo, shared, runFlag, lock, queue, wk,
                   outcome, ndone>>
    /\ UNCHANGED studyVars

\* where the except branch goes after setting the flag: the CPU branch waits
\* again; the GPU branch evaluates result.get() with result never assigned
AfterSetFlag == IF GpuMode THEN "raise" ELSE "wait2"

\* with lock: shared_sim_status["run_flag"].value = 0
SetFlag ==
    /\ driverPc = "setflag"
    /\ lock = NoOne
    /\ runFlag' = 0
    /\ driverPc' = AfterSetFlag
    /\ UNCHANGED <<gpuList, poolSize, drvInfo, shared, lock, queue, wk, outcome, ndone>>
    /\ UNCHANGED studyVars

Killed == [w \in Workers |-> [wk[w] EXCEPT !.pc = "dead"]]

\* a second KeyboardInterrupt during the second wait: pool.terminate(), pool.join()
ForceStop ==
    /\ driverPc = "wait2"
    /\ wk' = Killed
    /\ driverPc' = "final"
    /\ UNCHANGED <<gpuList, poolSize, drvInfo, shared, runFlag, lock, queue,
                   outcome, ndone>>
    /\ UNCHANGED studyVars

\* GPU branch: NameError leaves job_run_local; the interpreter exits and the
\* daemonic pool workers end with it
Crash ==
    /\ driverPc = "raise"
    /\ wk' = Killed
    /\ driverPc' = "crashed"
    /\ UNCHANGED <<gpuList, poolSize, drvInfo, shared, runFlag, lock, queue,
                   outcome, ndone>>
    /\ UNCHANGED studyVars

FinalInfoKeepRunning(sh) == sh

\* simulation_info lists := shared lists; sim_interrupted += sim_running;
\* sim_running = []; dumped to simulation_info.yaml
FinalInfo(sh) ==
    [sh EXCEPT !["interrupted"] = sh["interrupted"] \o sh["running"],
               !["running"] = <<>>]

FinalWrite ==
    /\ driverPc = "final"
    /\ info' = FinalInfo(shared)
    /\ driverPc' = "returned"
    /\ UNCHANGED <<cases, engineVars, docVars, folder, config, markers, lastCall, raised>>
    /\ UNCHANGED <<gpuList, poolSize, drvInfo, shared, runFlag, lock, queue, wk,
                   outcome, ndone>>

\* the study when job_run_local is called: any case may have been left in
\* another list by an earlier run
LaunchStatuses == {"not_started", "running", "finished"}

GpuLists ==
    {[i \in 1..n |-> off + i - 1] : n \in 1..MaxPool, off \in {0, 1}}
        \cup {[i \in 1..n |-> n - i] : n \in 1..MaxPool}

InfoOf(st) == [s \in Statuses |-> SeqOfSet({c \in DOMAIN st : st[c] = s})]

LocalInit ==
    /\ cases = 1..MaxLocalCases
    /\ \E st \in [1..MaxLocalCases -> LaunchStatuses] :
          /\ info = InfoOf(st)
          /\ config = st
    /\ markers = {}
    /\ folder = [c \in 1..MaxLocalCases |-> CaseFolder(c)]
    /\ lastCall = NoCall
    /\ raised = FALSE
    /\ EngineOff
    /\ DocsOff
    /\ \/ gpuList = <<>> /\ poolSize \in 1..MaxPool
       \/ gpuList \in GpuLists /\ poolSize = MaxPool
    /\ driverPc = "start"
    /\ drvInfo = EmptyInfo
    /\ shared = EmptyInfo
    /\ runFlag = 1
    /\ lock = NoOne
    /\ queue = <<>>
    /\ wk = [w \in Workers |-> IdleWorker]
    /\ outcome = [c \in 1..MaxLocalCases |-> "none"]
    /\ ndone = 0

WorkerStep(w) ==
    \/ TakeTask(w)
    \/ CheckFlag(w)
    \/ AcquireAndRemove(w)
    \/ AppendShared(w)
    \/ ReadInfo(w)
    \/ WriteConfig(w)
    \/ WriteInfoAndRelease(w)
    \/ \E how \in {"exit0", "exit1"} : ChildExit(w, how)

QuietNext ==
    \/ Launch
    \/ \E w \in Workers : WorkerStep(w)
    \/ WaitReturns
    \/ FinalWrite

LocalNext ==
    \/ QuietNext
    \/ \E w \in Workers : WorkerInterrupt(w)
    \/ DriverInterrupt
    \/ SetFlag
    \/ ForceStop
    \/ Crash

\* job_run_local with operator interrupts
LocalSpec == LocalInit /\ [][LocalNext]_vars

\* job_run_local with no interrupt, every process scheduled and every child
\* process terminating
QuietSpec == LocalInit /\ [][QuietNext]_vars /\ WF_vars(QuietNext)

\* ------------------------------------------------------ reset_simulations
sim_to_reset_everything(inf, reset_all) ==
    inf["not_started"] \o inf["running"] \o inf["finished"] \o inf["error"]
        \o inf["interrupted"]

\* reset_all: not_started + running + finished + error;
\* otherwise: not_started + running + error + interrupted
sim_to_reset(inf, reset_all) ==
    IF reset_all
    THEN inf["not_started"] \o inf["running"] \o inf["finished"] \o inf["error"]
    ELSE inf["not_started"] \o inf["running"] \o inf["error"] \o inf["interrupted"]

restore_without_parameters(c) == TemplateFolder

\* restore_original: rmtree, clone of original_folder, then update_nested_dict
\* for every entry of simulation_combos[sim]
restore_original_folder(c) ==
    update_nested_dict(TemplateFolder, simulation_combos(c))

\* the marker files the loop removes for sim when restore_original is False
RemovedMarkers(sim) == {<<"FINISHED", sim>>, <<"ERROR", sim>>}

RECURSIVE ResetLoop(_, _, _)
\* for sim in sim_to_reset: the restore_original branch or the else branch
ResetLoop(todo, st, restore_original) ==
    IF todo = <<>> THEN st
    ELSE LET sim == Head(todo)
             dumped == IF restore_original
                       THEN [st.config EXCEPT ![sim] = "not_started"]
                       ELSE st.config
             r == set_sim_status(st.info, dumped, sim, "not_started")
             nxt == [info |-> r.info,
                     config |-> r.config,
                     folder |-> IF restore_original
                                THEN [st.folder EXCEPT
                                         ![sim] = restore_original_folder(sim)]
                                ELSE st.folder,
                     markers |-> IF restore_original
                                 THEN st.markers
                                 ELSE st.markers \ RemovedMarkers(sim)]
         IN ResetLoop(Tail(todo), nxt, restore_original)

reset_simulations(inf, cfg, fol, mk, reset_all, restore_original) ==
    ResetLoop(sim_to_reset(inf, reset_all),
              [info |-> inf, config |-> cfg, folder |-> fol, markers |-> mk],
              restore_original)

\* a call of reset_simulations; lastCall also records which of the cases it
\* resets had a folder that differed from the one initialize_folders created
Reset(reset_all, restore_original) ==
    /\ LET r == reset_simulations(info, config, folder, markers,
                                  reset_all, restore_original)
       IN /\ info' = r.info
          /\ config' = r.config
          /\ folder' = r.folder
          /\ markers' = r.markers
    /\ lastCall' = [op |-> "reset_simulations",
                    reset_all |-> reset_all,
                    restore_original |-> restore_original,
                    changed |-> {c \in Range(sim_to_reset(info, reset_all)) :
                                    folder[c] # CaseFolder(c)}]
    /\ raised' = FALSE
    /\ UNCHANGED <<cases, engineVars, docVars>>
    /\ UNCHANGED localVars

\* the contents a case folder can take
FolderContents(c) ==
    [axis : {TemplateValue, simulation_combos(c)}, rest : {"template", "changed"}]

\* the simulation or the user rewrites files of a case folder
ChangeFolder(c) ==
    /\ \E f \in FolderContents(c) \ {folder[c]} :
          folder' = [folder EXCEPT ![c] = f]
    /\ lastCall' = NoCall
    /\ raised' = FALSE
    /\ UNCHANGED <<cases, engineVars, docVars, info, config, markers>>
    /\ UNCHANGED localVars

\* a study whose cases have reached any of the five lists
ResetInit ==
    /\ cases = 1..MaxCases
    /\ \E st \in [1..MaxCases -> Statuses] :
          /\ info = InfoOf(st)
          /\ config = st
    /\ markers = {}
    /\ folder = [c \in 1..MaxCases |-> CaseFolder(c)]
    /\ lastCall = NoCall
    /\ raised = FALSE
    /\ EngineOff
    /\ DocsOff
    /\ IdleLocal

ResetNext ==
    \/ \E k \in MarkerKinds, c \in cases : RemoteTouch(k, c)
    \/ \E ra, ro \in BOOLEAN : Reset(ra, ro)

\* reset_simulations on a study with marker files
ResetSpec == ResetInit /\ [][ResetNext]_vars

ReconcileNext ==
    \/ \E k \in MarkerKinds, c \in cases : RemoteTouch(k, c)
    \/ \E ra, ro \in BOOLEAN : Reset(ra, ro)
    \/ UpdateRemoteStatus

\* reset_simulations and _update_remote_status on a study with marker files
ReconcileSpec == ResetInit /\ [][ReconcileNext]_vars

RestoreNext ==
    \/ \E c \in cases : ChangeFolder(c)
    \/ \E ra, ro \in BOOLEAN : Reset(ra, ro)

\* reset_simulations on a study whose case folders have been changed
RestoreSpec == ResetInit /\ [][RestoreNext]_vars

\* ------------------------------------- set_sim_status without the lock
\* Two processes call set_sim_status with no lock around it (two CLI or API
\* users of one study), process p on case p. A call reads
\* simulation_info.yaml, changes its copy, writes the config document and
\* then writes simulation_info.yaml; each read and each write of a file is
\* one step. A process can be killed between two steps.
Callers == {1, 2}

CallStart(p, status) ==
    /\ wk[p].pc = "idle"
    /\ wk' = [wk EXCEPT ![p] = [@ EXCEPT !.pc = "read", !.sim = p,
                                        !.target = status]]
    /\ UNCHANGED studyVars
    /\ UNCHANGED <<gpuList, poolSize, driverPc, drvInfo, shared, runFlag, lock,
                   queue, outcome, ndone>>

\* with open(simulation_info_file, "r"): yaml.safe_load; the name is found
CallRead(p) ==
    /\ wk[p].pc = "read"
    /\ PrevLoc(info, wk[p].sim) # "none"
    /\ wk' = [wk EXCEPT ![p] = [@ EXCEPT !.pc = "wcfg", !.rd = info]]
    /\ UNCHANGED studyVars
    /\ UNCHANGED <<gpuList, poolSize, driverPc, drvInfo, shared, runFlag, lock,
                   queue, outcome, ndone>>

\* the config document is loaded, simulation_status set, and dumped
CallWriteConfig(p) ==
    /\ wk[p].pc = "wcfg"
    /\ config' = [config EXCEPT ![wk[p].sim] = wk[p].target]
    /\ wk' = [wk EXCEPT ![p] = [@ EXCEPT !.pc = "winfo"]]
    /\ UNCHANGED <<cases, engineVars, docVars, folder, info, markers, lastCall, raised>>
    /\ UNCHANGED <<gpuList, poolSize, driverPc, drvInfo, shared, runFlag, lock,
                   queue, outcome, ndone>>

\* the changed copy of what was read is dumped to simulation_info.yaml
CallWriteInfo(p) ==
    /\ wk[p].pc = "winfo"
    /\ info' = Move(wk[p].rd, wk[p].sim, wk[p].target)
    /\ wk' = [wk EXCEPT ![p] = [@ EXCEPT !.pc = "done"]]
    /\ UNCHANGED <<cases, engineVars, docVars, folder, config, markers, lastCall, raised>>
    /\ UNCHANGED <<gpuList, poolSize, driverPc, drvInfo, shared, runFlag, lock,
                   queue, outcome, ndone>>

\* the calling process is killed before its next step
CallKill(p) ==
    /\ wk[p].pc \in {"read", "wcfg", "winfo"}
    /\ wk' = [wk EXCEPT ![p] = [@ EXCEPT !.pc = "killed"]]
    /\ UNCHANGED studyVars
    /\ UNCHANGED <<gpuList, poolSize, driverPc, drvInfo, shared, runFlag, lock,
                   queue, outcome, ndone>>

RaceInit ==
    /\ cases = 1..MaxCases
    /\ \E st \in [1..MaxCases -> Statuses] :
          /\ info = InfoOf(st)
          /\ config = st
    /\ markers = {}
    /\ folder = [c \in 1..MaxCases |-> CaseFolder(c)]
    /\ lastCall = NoCall
    /\ raised = FALSE
    /\ EngineOff
    /\ DocsOff
    /\ gpuList = <<>>
    /\ poolSize = 0
    /\ driverPc = "off"
    /\ drvInfo = EmptyInfo
    /\ shared = EmptyInfo
    /\ runFlag = 1
    /\ lock = NoOne
    /\ queue = <<>>
    /\ wk = [p \in Callers |-> IdleWorker]
    /\ outcome = <<>>
    /\ ndone = 0

RaceNext ==
    \/ \E p \in Callers, s \in Statuses : CallStart(p, s)
    \/ \E p \in Callers : CallRead(p)
    \/ \E p \in Callers : CallWriteConfig(p)
    \/ \E p \in Callers : CallWriteInfo(p)
    \/ \E p \in Callers : CallKill(p)

RaceSpec == RaceInit /\ [][RaceNext]_vars

\* ------------------------------------- job_run_htcondor / job_run_slurm
RECURSIVE WrapMainFiles(_, _)
\* job_run_htcondor rewrites the main file of every simulation to run
WrapMainFiles(todo, fol) ==
    IF todo = <<>> THEN fol
    ELSE WrapMainFiles(Tail(todo),
                       [fol EXCEPT ![Head(todo)] = [@ EXCEPT !.rest = "changed"]])

job_run_htcondor_marks_running(inf, cfg, fol, run_test, accepted) ==
    [info |-> [inf EXCEPT !["running"] = @ \o inf["not_started"],
                          !["not_started"] = <<>>],
     config |-> cfg,
     folder |-> fol]

\* the study files after job_run_htcondor: simulation_info is only read, the
\* main files of the not-started cases (of no case with run_test) are
\* rewritten, and condor_submit accepts or rejects the submission
job_run_htcondor(inf, cfg, fol, run_test, accepted) ==
    [info |-> inf,
     config |-> cfg,
     folder |-> IF run_test THEN fol ELSE WrapMainFiles(inf["not_started"], fol)]

\* the study files after job_run_slurm: simulation_info is only read and the
\* files written are under slurm_support
job_run_slurm(inf, cfg, fol, accepted) ==
    [info |-> inf, config |-> cfg, folder |-> fol]

JobRunHtcondor(run_test, accepted) ==
    /\ LET r == job_run_htcondor(info, config, folder, run_test, accepted)
       IN /\ info' = r.info
          /\ config' = r.config
          /\ folder' = r.folder
    /\ lastCall' = [op |-> "job_run_htcondor", accepted |-> accepted]
    /\ raised' = FALSE
    /\ UNCHANGED <<cases, engineVars, docVars, markers>>
    /\ UNCHANGED localVars

JobRunSlurm(accepted) ==
    /\ LET r == job_run_slurm(info, config, folder, accepted)
       IN /\ info' = r.info
          /\ config' = r.config
          /\ folder' = r.folder
    /\ lastCall' = [op |-> "job_run_slurm", accepted |-> accepted]
    /\ raised' = FALSE
    /\ UNCHANGED <<cases, engineVars, docVars, markers>>
    /\ UNCHANGED localVars

SubmitNext ==
    \/ \E n \in cases, s \in Statuses : SetSimStatus(n, s)
    \/ \E t, a \in BOOLEAN : JobRunHtcondor(t, a)
    \/ \E a \in BOOLEAN : JobRunSlurm(a)

\* the remote executors on a study whose cases are in any of the lists
SubmitSpec == ResetInit /\ [][SubmitNext]_vars

\* ------------------------------------------------------ cli_tools.main
\* the keyword arguments each executor pops before its check `if kwargs`
LocalKeywords ==
    {"initial_instructions", "final_instructions", "stdout_path",
     "stderr_path", "log_path", "gpu_available_list", "n_concurrent_jobs"}

HtcondorKeywords ==
    {"initial_instructions", "final_instructions", "stdout_path",
     "stderr_path", "log_path", "request_gpus", "request_cpus", "time_limit",
     "bump_schedd", "run_test", "test_time_limit", "htcondor_submit_template",
     "cvmfs_path", "venv_path", "requirements_path", "eos_dir"}

SlurmKeywords ==
    {"slurm_instructions", "stdout_path", "stdout_path_slurm", "stderr_path",
     "stderr_path_slurm", "log_path", "request_gpus", "request_cpus",
     "request_ram", "time_limit", "venv_path", "partition_option",
     "slurm_submit_template"}

Keywords(subcommand) ==
    CASE subcommand = "run-local" -> LocalKeywords
      [] subcommand = "run-htcondor" -> HtcondorKeywords
      [] subcommand = "run-slurm" -> SlurmKeywords

\* the sections of a run config that hold keywords of the executor only: none,
\* one or two of them
Sections(subcommand) ==
    {{}} \cup {{a, b} : a, b \in Keywords(subcommand) \ {"run_test"}}

\* main: config = config[section]; config["run_test"] = args.run_test; the
\* executor is called with **config
CliKwargs(section) == section \cup {"run_test"}

\* what is left in kwargs after the executor's pops
Unexpected(subcommand, kwargs) == kwargs \ Keywords(subcommand)

CliCall(subcommand, section, run_test) ==
    [op |-> "cli", subcommand |-> subcommand, kwargs |-> CliKwargs(section),
     run_test |-> run_test,
     unexpected |-> Unexpected(subcommand, CliKwargs(section))]

\* simanager run-local -c run_config.yaml [-t]
\* (job_run_local past its check is the driver of the local run at its start)
CliRunLocal(section, run_test) ==
    /\ lastCall.op = "none"
    /\ lastCall' = CliCall("run-local", section, run_test)
    /\ IF Unexpected("run-local", CliKwargs(section)) # {}
       THEN /\ raised' = TRUE
            /\ UNCHANGED localVars
       ELSE /\ raised' = FALSE
            /\ driverPc' = "start"
            /\ poolSize' \in 1..MaxPool
            /\ UNCHANGED <<gpuList, drvInfo, shared, runFlag, lock, queue, wk,
                           outcome, ndone>>
    /\ UNCHANGED <<cases, info, config, markers, folder, engineVars, docVars>>

\* simanager run-htcondor -c run_config.yaml [-t]
CliRunHtcondor(section, run_test, accepted) ==
    /\ lastCall.op = "none"
    /\ lastCall' = CliCall("run-htcondor", section, run_test)
    /\ IF Unexpected("run-htcondor", CliKwargs(section)) # {}
          \/ {"venv_path", "requirements_path"} \subseteq section
       THEN /\ raised' = TRUE
            /\ UNCHANGED <<info, config, folder>>
       ELSE /\ raised' = FALSE
            /\ LET r == job_run_htcondor(info, config, folder, run_test, accepted)
               IN /\ info' = r.info
                  /\ config' = r.config
                  /\ folder' = r.folder
    /\ UNCHANGED <<cases, engineVars, docVars, markers>>
    /\ UNCHANGED localVars

\* simanager run-slurm -c run_config.yaml [-t]
CliRunSlurm(section, run_test, accepted) ==
    /\ lastCall.op = "none"
    /\ lastCall' = CliCall("run-slurm", section, run_test)
    /\ IF Unexpected("run-slurm", CliKwargs(section)) # {}
       THEN /\ raised' = TRUE
            /\ UNCHANGED <<info, config, folder>>
       ELSE /\ raised' = FALSE
            /\ LET r == job_run_slurm(info, config, folder, accepted)
               IN /\ info' = r.info
                  /\ config' = r.config
                  /\ folder' = r.folder
    /\ UNCHANGED <<cases, engineVars, docVars, markers>>
    /\ UNCHANGED localVars

CliNext ==
    \/ \E sec \in Sections("run-local"), t \in BOOLEAN : CliRunLocal(sec, t)
    \/ \E sec \in Sections("run-htcondor"), t, a \in BOOLEAN :
          CliRunHtcondor(sec, t, a)
    \/ \E sec \in Sections("run-slurm"), t, a \in BOOLEAN :
          CliRunSlurm(sec, t, a)

\* one run subcommand on a study whose cases are in any of the lists, with a
\* run config that holds the section of the subcommand
CliSpec == ResetInit /\ [][CliNext]_vars

\* ------------------------------------------------ parameter combinations
\* A declared parameter is named by its position p in parameters_inspected;
\* its values are 10 p + 1, 10 p + 2, ... so that values tell parameters apart.
Methods == {"individual", "meshgrid", "product", "none"}

ValuesOf(p, n) == [i \in 1..n |-> 10 * p + i]

\* what one declaration chooses: a parameter of its own (the method is not
\* read for it) or a member of group 0 or 1, with 1 or MaxValues values
ParamChoices ==
    [combination_idx : {-1}, combination_method : {"none", "meshgrid"},
     n : {1, MaxValues}]
        \cup [combination_idx : {0, 1}, combination_method : Methods,
              n : {1, MaxValues}]

\* the parameters_inspected list made of the choices d
Declared(d) ==
    [p \in DOMAIN d |-> [combination_idx |-> d[p].combination_idx,
                         combination_method |-> d[p].combination_method,
                         values |-> ValuesOf(p, d[p].n)]]

RECURSIVE Prod(_)
Prod(s) == IF s = <<>> THEN 1 ELSE Head(s) * Prod(Tail(s))

RECURSIVE Flatten(_)
Flatten(ss) == IF ss = <<>> THEN <<>> ELSE Head(ss) \o Flatten(Tail(ss))

Reverse(s) == [i \in DOMAIN s |-> s[Len(s) + 1 - i]]

MinOf(s) == CHOOSE x \in Range(s) : \A y \in Range(s) : x <= y

\* np.where(p_idx == idx)[0]: the positions declared with that idx, ascending
Positions(params, idx) ==
    SeqOfSet({p \in DOMAIN params : params[p].combination_idx = idx})

\* np.unique(p_idx[p_idx != -1]): the group ids, ascending
GroupIds(params) ==
    SeqOfSet({params[p].combination_idx : p \in DOMAIN params} \ {-1})

SingleAxis(params, p) ==
    [names |-> p, values |-> params[p].values, n |-> Len(params[p].values),
     kind |-> "single"]

RECURSIVE DecodeLastFastest(_, _)
\* the index tuple of flat position f in an array of shape dims, C order
DecodeLastFastest(dims, f) ==
    IF dims = <<>> THEN <<>>
    ELSE LET k == Len(dims)
         IN DecodeLastFastest(SubSeq(dims, 1, k - 1), f \div dims[k])
                \o <<f % dims[k]>>

Swap12(s) ==
    IF Len(s) < 2 THEN s
    ELSE [i \in DOMAIN s |-> IF i = 1 THEN s[2] ELSE IF i = 2 THEN s[1] ELSE s[i]]

\* list(zip(*[range(len(v)) for v in values])): as long as the shortest
ZipPositions(lens) == [f \in 1..MinOf(lens) |-> [m \in DOMAIN lens |-> f - 1]]

MeshgridPositionsDiagonal(lens) ==
    [f \in 1..MinOf(lens) |-> [m \in DOMAIN lens |-> f - 1]]

\* np.meshgrid(*ranges) with the default 'xy' indexing, each flattened, zipped
MeshgridPositions(lens) ==
    [f \in 1..Prod(lens) |-> Swap12(DecodeLastFastest(Swap12(lens), f - 1))]

\* list(itertools.product(*ranges))
ProductPositions(lens) ==
    [f \in 1..Prod(lens) |-> DecodeLastFastest(lens, f - 1)]

\* the compound axis of the members idxs whose entries are at id_equiv
GroupAxis(params, idxs, id_equiv) ==
    [names |-> idxs,
     values |-> [f \in DOMAIN id_equiv |->
                    [m \in DOMAIN idxs |->
                        params[idxs[m]].values[id_equiv[f][m] + 1]]],
     n |-> Len(id_equiv),
     kind |-> "multi",
     id_equiv |-> id_equiv]

MethodsAgreeUnchecked(params, idxs) == TRUE

\* all(p_combo_methods[idxs] == combo_method)
MethodsAgree(params, idxs) ==
    \A m \in DOMAIN idxs :
        params[idxs[m]].combination_method = params[idxs[1]].combination_method

LengthsAgreeUnchecked(lens) == TRUE

\* all(len(v) == len(values[0]) for v in values)
LengthsAgree(lens) == \A m \in DOMAIN lens : lens[m] = lens[1]

RECURSIVE BuildGroups(_, _, _)
\* for val in unique_idx: raise ValueError or append the compound axis
BuildGroups(params, gids, acc) ==
    IF gids = <<>> THEN [raised |-> FALSE, combinations |-> acc]
    ELSE LET idxs == Positions(params, Head(gids))
             combo_method == params[idxs[1]].combination_method
             lens == [m \in DOMAIN idxs |-> Len(params[idxs[m]].values)]
         IN IF ~MethodsAgree(params, idxs)
            THEN [raised |-> TRUE, combinations |-> <<>>]
            ELSE IF combo_method = "individual"
            THEN IF ~LengthsAgree(lens)
                 THEN [raised |-> TRUE, combinations |-> <<>>]
                 ELSE BuildGroups(params, Tail(gids),
                          Append(acc, GroupAxis(params, idxs, ZipPositions(lens))))
            ELSE IF combo_method = "meshgrid"
            THEN BuildGroups(params, Tail(gids),
                     Append(acc, GroupAxis(params, idxs, MeshgridPositions(lens))))
            ELSE IF combo_method = "product"
            THEN BuildGroups(params, Tail(gids),
                     Append(acc, GroupAxis(params, idxs, ProductPositions(lens))))
            ELSE BuildGroups(params, Tail(gids), acc)

\* single_combinations + joined_combinations, or the ValueError raised
build_parameter_combinations(params) ==
    LET singles == Positions(params, -1)
    IN BuildGroups(params, GroupIds(params),
                   [i \in DOMAIN singles |-> SingleAxis(params, singles[i])])

\* the tuples of the case at the axis positions cur
CurrentCombination(combos, cur) ==
    Flatten([j \in DOMAIN combos |->
        LET c == combos[j]
        IN IF c.kind = "single"
           THEN <<[name |-> c.names, value |-> c.values[cur[j] + 1],
                   kind |-> "single", idx |-> cur[j]]>>
           ELSE [k \in DOMAIN c.names |->
                    [name |-> c.names[k], value |-> c.values[cur[j] + 1][k],
                     kind |-> "multi", idx |-> c.id_equiv[cur[j] + 1][k]]]])

RECURSIVE Carry(_, _, _)
\* for i, (idx, max_val) in enumerate(zip(current_idx, n_values)): the array
\* is read as it is when position i is reached
Carry(cur, n_values, i) ==
    IF i > Len(cur) THEN cur
    ELSE IF cur[i] = n_values[i]
    THEN Carry(IF i + 1 <= Len(cur)
               THEN [cur EXCEPT ![i] = 0, ![i + 1] = @ + 1]
               ELSE [cur EXCEPT ![i] = 0],
               n_values, i + 1)
    ELSE Carry(cur, n_values, i + 1)

UpdateIndicesNoCarry(cur, n_values) ==
    [cur EXCEPT ![1] = (@ + 1) % n_values[1]]

UpdateIndicesLastFastest(cur, n_values) ==
    Reverse(Carry([Reverse(cur) EXCEPT ![1] = @ + 1], Reverse(n_values), 1))

\* current_idx[0] += 1, then the carries
UpdateIndices(cur, n_values) == Carry([cur EXCEPT ![1] = @ + 1], n_values, 1)

NValues(combos) == [j \in DOMAIN combos |-> combos[j].n]

\* one next() of the generator yield_parameter_combinations: the first one
\* builds the axes (ValueError of build_parameter_combinations; TypeError of
\* range(np.prod([])) when no axis was built), each one computes the
\* current combination, advances current_idx and yields, the one after the
\* last combination ends the generator
GenStep ==
    /\ genPc \in {"new", "loop"}
    /\ LET b == IF genPc = "new"
                THEN build_parameter_combinations(parameters_inspected)
                ELSE [raised |-> FALSE, combinations |-> combinations]
           cur == IF genPc = "new"
                  THEN [j \in DOMAIN b.combinations |-> 0]
                  ELSE current_idx
       IN IF b.raised
          THEN /\ genPc' = "ValueError"
               /\ UNCHANGED <<combinations, current_idx, yielded>>
          ELSE IF b.combinations = <<>>
          THEN /\ genPc' = "TypeError"
               /\ UNCHANGED <<combinations, current_idx, yielded>>
          ELSE IF Len(yielded) < Prod(NValues(b.combinations))
          THEN /\ genPc' = "loop"
               /\ combinations' = b.combinations
               /\ yielded' = Append(yielded, CurrentCombination(b.combinations, cur))
               /\ current_idx' = UpdateIndices(cur, NValues(b.combinations))
          ELSE /\ genPc' = "done"
               /\ UNCHANGED <<combinations, current_idx, yielded>>

\* one next() on a generator that nothing else consumes
GenNext ==
    /\ GenStep
    /\ UNCHANGED <<cases, info, config, markers, folder, lastCall, raised,
                   parameters_inspected, docVars>>
    /\ UNCHANGED localVars

\* a constructed study whose folders are not created yet
NoFolders ==
    /\ cases = {}
    /\ info = EmptyInfo
    /\ config = <<>>
    /\ markers = {}
    /\ folder = <<>>
    /\ lastCall = NoCall
    /\ raised = FALSE

ComboInit ==
    /\ NoFolders
    /\ \E k \in 1..MaxParams :
          \E d \in [1..k -> ParamChoices] : parameters_inspected = Declared(d)
    /\ combinations = <<>>
    /\ current_idx = <<>>
    /\ yielded = <<>>
    /\ genPc = "declared"
    /\ DocsOff
    /\ IdleLocal

\* SimulationStudy(...): __post_init__ turns every declaration into a
\* ParameterInspection, whose __post_init__ looks at inspection_method and
\* the bounds or values only (all declarations here are "custom" with
\* values); combination_idx and combination_method are stored as given
Construct ==
    /\ genPc = "declared"
    /\ genPc' = "new"
    /\ UNCHANGED <<cases, info, config, markers, folder, lastCall, raised,
                   parameters_inspected, combinations, current_idx, yielded,
                   docVars>>
    /\ UNCHANGED localVars

ComboNext ==
    \/ Construct
    \/ GenNext

\* the generator run to its end on every declared parameter list
ComboSpec == ComboInit /\ [][ComboNext]_vars

\* ================================================================ claims
InList(inf, s, c) == Contains(inf[s], c)

IsPartition(inf, cs) ==
    /\ \A s \in Statuses : NoDup(inf[s]) /\ Range(inf[s]) \subseteq cs
    /\ \A s, u \in Statuses : s # u => Range(inf[s]) \cap Range(inf[u]) = {}
    /\ UNION {Range(inf[s]) : s \in Statuses} = cs

\* C1: from the state written by initialize_folders with pairwise distinct
\* case names, after any sequence of set_sim_status calls (and of
\* _update_remote_status, which only calls it) the five persisted lists are
\* pairwise disjoint, hold no duplicate, and their union is the set of
\* registered cases.
C1_Partition == IsPartition(info, cases)

C1_Witness ==
    /\ lastCall.op = "set_sim_status"
    /\ Len(info["finished"]) = 1
    /\ Len(info["interrupted"]) = 1
    /\ info["not_started"] = <<>>

\* C2: a set_sim_status call whose sim_name is in none of the five lists
\* raises, and leaves the persisted lists and every config document as
\* they were.
C2_UnknownRaises ==
    [][(lastCall'.op = "set_sim_status" /\ PrevLoc(info, lastCall'.sim_name) = "none")
        => (raised' /\ info' = info /\ config' = config)]_vars

C2_Witness ==
    /\ lastCall = [op |-> "set_sim_status", sim_name |-> Ghost]
    /\ raised
    /\ info["running"] # <<>>

\* C3: job_run_local without GPUs, pool size N, no case in running at launch:
\* never more than N cases in running, in the shared list and in the
\* persisted list.
C3_PoolBound ==
    (~GpuMode /\ driverPc \notin {"off", "start"} /\ drvInfo["running"] = <<>>)
        => /\ Len(shared["running"]) <= poolSize
           /\ Len(info["running"]) <= poolSize

C3_Witness ==
    /\ ~GpuMode
    /\ drvInfo["running"] = <<>>
    /\ NTasks > poolSize
    /\ Len(info["running"]) = poolSize
    /\ Len(shared["running"]) = poolSize
    /\ queue[-1] # <<>>

C4_Locked == {"app", "read", "wcfg", "winfo"}

\* the list of a case's own last transition
C4_Expected(c) ==
    CASE outcome[c] = "none" -> "not_started"
      [] outcome[c] = "started" -> "running"
      [] outcome[c] = "exit0" -> "finished"
      [] outcome[c] = "exit1" -> "error"
      [] outcome[c] = "sigint" -> "interrupted"

\* C4: every worker is inside its list changes and its set_sim_status
\* read-modify-write only while it holds the manager lock, and once every
\* task has returned each case handed to the pool is in exactly the persisted
\* list of its own last transition.
C4_NoLostTransition ==
    /\ \A w \in DOMAIN wk : wk[w].pc \in C4_Locked => lock = w
    /\ (driverPc \in {"wait", "setflag", "raise", "wait2", "final"} /\ AllDone)
         => \A c \in Range(drvInfo["not_started"]) :
               \A s \in Statuses : InList(info, s, c) <=> s = C4_Expected(c)

C4_Witness ==
    /\ driverPc = "wait"
    /\ AllDone
    /\ NWorkers > 1
    /\ NTasks = MaxLocalCases
    /\ \E c, d \in cases : outcome[c] = "exit0" /\ outcome[d] = "exit1"

C5_Launched == Range(drvInfo["not_started"])

C5_AtReturn ==
    /\ \A c \in C5_Launched : InList(info, "finished", c) \/ InList(info, "error", c)
    /\ info["not_started"] = <<>>
    /\ info["running"] = <<>>

C6_Busy(c) == \E w \in DOMAIN wk : wk[w].sim = c

C6_ExitStatus ==
    \A c \in cases :
        /\ (outcome[c] = "exit0" /\ ~C6_Busy(c))
              => (PrevLoc(info, c) = "finished" /\ ~InList(info, "running", c)
                  /\ InList(shared, "finished", c) /\ ~InList(shared, "running", c))
        /\ (outcome[c] = "exit1" /\ ~C6_Busy(c))
              => (PrevLoc(info, c) = "error" /\ ~InList(info, "running", c)
                  /\ InList(shared, "error", c) /\ ~InList(shared, "running", c))
        /\ (outcome[c] \in {"exit0", "exit1"} /\ C6_Busy(c) /\ lock = NoOne)
              => InList(info, "running", c)

C6_AllTerminal ==
    /\ driverPc = "returned"
    /\ \A c \in C5_Launched : InList(info, "finished", c) \/ InList(info, "error", c)

\* C6: a case whose child exits with code 0 goes from running to finished,
\* one whose child exits nonzero goes from running to error, and after a case
\* has ended in error the remaining cases are still run to a terminal status.
C6_ErrorDoesNotAbort ==
    /\ []C6_ExitStatus
    /\ (\E c \in cases : outcome[c] = "exit1") ~> C6_AllTerminal

C6_Witness ==
    /\ driverPc = "returned"
    /\ NTasks = MaxLocalCases
    /\ outcome[1] = "exit1"
    /\ \A c \in cases \ {1} : outcome[c] = "exit0" /\ InList(info, "finished", c)
    /\ InList(info, "error", 1)

\* C7: after an operator interrupt, once the driver has stopped, no case is in
\* the persisted running list and every case is in one of the five lists
\* (stated for a launch with no case left in running by an earlier run).
C7_NoRunningAfterInterrupt ==
    (runFlag = 0 /\ driverPc \in {"returned", "crashed"} /\ drvInfo["running"] = <<>>)
        => (info["running"] = <<>> /\ IsPartition(info, cases))

\* C8: a KeyboardInterrupt of the waiting driver is handled in the CPU and in
\* the GPU branch: the driver raises nothing and writes the final StudyState.
C8_InterruptHandled ==
    (driverPc \notin {"off", "start"} /\ runFlag = 0)
        => driverPc \in {"wait2", "final", "returned"}

\* C9: once the driver has set run_flag to 0, no case leaves not_started.
C9_NoDispatchAfterFlag ==
    [][runFlag = 0 =>
        \A c \in cases :
            /\ InList(shared, "not_started", c) => InList(shared', "not_started", c)
            /\ InList(info, "not_started", c) => InList(info', "not_started", c)]_vars

\* C10: after _update_remote_status, every case that was in running or
\* not_started and has an ERROR_ marker and no FINISHED_ marker is in error
\* and not in running.
C10_ErrorMarkerReconciled ==
    [][lastCall'.op = "update_remote_status" =>
        \A c \in cases :
            ( /\ InList(info, "running", c) \/ InList(info, "not_started", c)
              /\ <<"ERROR", c>> \in markers
              /\ <<"FINISHED", c>> \notin markers )
            => (InList(info', "error", c) /\ ~InList(info', "running", c))]_vars

C10_Witness ==
    /\ lastCall.op = "update_remote_status"
    /\ <<"ERROR", 1>> \in markers
    /\ <<"FINISHED", 1>> \notin markers
    /\ InList(info, "error", 1)
    /\ config[1] = "error"
    /\ InList(info, "running", 2)

C11_Checked(c) == InList(info, "not_started", c) \/ InList(info, "running", c)

C11_Marked(c) == \E k \in MarkerKinds : <<k, c>> \in markers

C12_ResetAllResetsAll ==
    [][(lastCall'.op = "reset_simulations" /\ lastCall'.reset_all) =>
        /\ \A c \in cases : InList(info', "not_started", c)
        /\ \A s \in Statuses \ {"not_started"} : info'[s] = <<>>]_vars

\* C13: reset_simulations(reset_all=False) moves exactly the cases in
\* not_started, running, error or interrupted to not_started, and leaves
\* every finished case in finished with its folder and its config status
\* unchanged.
C13_ResetKeepsFinished ==
    [][(lastCall'.op = "reset_simulations" /\ ~lastCall'.reset_all) =>
        \A c \in cases :
            /\ PrevLoc(info, c) \in {"not_started", "running", "error", "interrupted"}
                  => (InList(info', "not_started", c) /\ config'[c] = "not_started")
            /\ InList(info, "finished", c)
                  => /\ PrevLoc(info', c) = "finished"
                     /\ folder'[c] = folder[c]
                     /\ config'[c] = config[c]]_vars

C13_Witness ==
    /\ lastCall.op = "reset_simulations"
    /\ ~lastCall.reset_all
    /\ lastCall.restore_original
    /\ lastCall.changed = {2}
    /\ InList(info, "finished", 1)
    /\ folder[1] # CaseFolder(1)
    /\ InList(info, "not_started", 2)

\* C14: after reset_simulations(restore_original=False) no FINISHED_, ERROR_
\* or IO_ERROR_ marker remains for any reset case, so a following
\* _update_remote_status with no new marker leaves every reset case in
\* not_started.
C14_ResetClearsMarkers ==
    [][(lastCall'.op = "reset_simulations" /\ ~lastCall'.restore_original) =>
        LET after == update_remote_status(info', config', markers')
        IN \A c \in Range(sim_to_reset(info, lastCall'.reset_all)) :
              /\ \A k \in MarkerKinds : <<k, c>> \notin markers'
              /\ InList(after.info, "not_started", c)]_vars

C15_Twice(reset_all) ==
    LET once == reset_simulations(info, config, folder, markers, reset_all, TRUE)
        twice == reset_simulations(once.info, once.config, once.folder,
                                   once.markers, reset_all, TRUE)
    IN twice = once

C16_ConfigMirrorsList ==
    driverPc = "returned" => \A c \in cases : config[c] = PrevLoc(info, c)

\* C17: set_sim_status persists its change atomically: if the calling process
\* is killed between two of its steps (and no other process writes), the
\* persisted lists are a partition and the config status of the case is the
\* name of the list that holds the case.
C17_KillLeavesConsistent ==
    \A p \in DOMAIN wk :
        (wk[p].pc = "killed" /\ \A q \in DOMAIN wk \ {p} : wk[q].pc = "idle")
            => /\ IsPartition(info, cases)
               /\ config[wk[p].sim] = PrevLoc(info, wk[p].sim)

C19_SubmitLeavesStatus ==
    [][lastCall'.op \in {"job_run_htcondor", "job_run_slurm"} =>
        /\ info' = info
        /\ config' = config
        /\ \A c \in cases :
              InList(info, "not_started", c) => InList(info', "not_started", c)]_vars

C19_Witness ==
    /\ lastCall = [op |-> "job_run_htcondor", accepted |-> TRUE]
    /\ InList(info, "not_started", 1)
    /\ config[1] = "not_started"
    /\ folder[1].rest = "changed"
    /\ InList(info, "running", 2)

\* the worker processes that hold a task whose CUDA_VISIBLE_DEVICES is g
C20_On(g) == {w \in DOMAIN wk : wk[w].pc \notin {"idle", "dead"} /\ wk[w].gpu = g}

Leaf(v) == [kind |-> "leaf", v |-> v]

Dict(items) == [kind |-> "dict", items |-> items]

Keys == {"a", "b"}

\* f with the value v written at x
Write(f, x, v) == [y \in DOMAIN f \cup {x} |-> IF y = x THEN v ELSE f[y]]

RECURSIVE UpdateNestedDictCreating(_, _, _)
UpdateNestedDictCreating(d, keys, value) ==
    IF Len(keys) = 1
    THEN [error |-> "none", dict |-> Dict(Write(d.items, keys[1], value))]
    ELSE LET sub == IF Head(keys) \in DOMAIN d.items
                    THEN (IF d.items[Head(keys)].kind = "dict"
                          THEN d.items[Head(keys)] ELSE Dict(<<>>))
                    ELSE Dict(<<>>)
         IN [error |-> "none",
             dict |-> Dict(Write(d.items, Head(keys),
                          UpdateNestedDictCreating(sub, Tail(keys), value).dict))]

RECURSIVE UpdateNestedDict(_, _, _)
\* update_nested_dict(nested_dict, key_chain, value) with keys =
\* key_chain.split("/"): the error raised, and the dictionary afterwards
\* (it is changed in place by the last statement only)
UpdateNestedDict(d, keys, value) ==
    IF Len(keys) = 1
    THEN [error |-> "none", dict |-> Dict(Write(d.items, keys[1], value))]
    ELSE IF Head(keys) \notin DOMAIN d.items
    THEN [error |-> "KeyError", dict |-> d]
    ELSE IF d.items[Head(keys)].kind # "dict"
    THEN [error |-> "ValueError", dict |-> d]
    ELSE LET r == UpdateNestedDict(d.items[Head(keys)], Tail(keys), value)
         IN [error |-> r.error,
             dict |-> IF r.error = "none"
                      THEN Dict([d.items EXCEPT ![Head(keys)] = r.dict])
                      ELSE d]

\* a call of update_nested_dict on the dictionary, kept in lastCall with the
\* dictionary as it was
CallUpdateNestedDict(keys, value) ==
    /\ lastCall.op = "none"
    /\ LET r == UpdateNestedDict(nested_dict, keys, value)
       IN /\ nested_dict' = r.dict
          /\ raised' = (r.error # "none")
          /\ lastCall' = [op |-> "update_nested_dict", keys |-> keys,
                          value |-> value, error |-> r.error,
                          before |-> nested_dict]
    /\ UNCHANGED <<cases, info, config, markers, folder, engineVars, table,
                   test_case>>
    /\ UNCHANGED localVars

DictsOver(nodes) ==
    {Dict(f) : f \in UNION {[ks -> nodes] : ks \in SUBSET Keys}}

Leaves == {Leaf("x"), Leaf("y")}

\* the dictionaries of at most two levels
Documents == DictsOver(Leaves \cup DictsOver(Leaves))

KeyChains == UNION {[1..n -> Keys] : n \in 1..MaxChain}

DictInit ==
    /\ cases = {}
    /\ info = EmptyInfo
    /\ config = <<>>
    /\ markers = {}
    /\ folder = <<>>
    /\ lastCall = NoCall
    /\ raised = FALSE
    /\ EngineOff
    /\ nested_dict \in Documents
    /\ table = <<>>
    /\ test_case = FALSE
    /\ IdleLocal

DictNext ==
    \E keys \in KeyChains, value \in {Leaf("new"), Dict(<<>>)} :
        CallUpdateNestedDict(keys, value)

\* update_nested_dict applied once to a dictionary of at most two levels
DictSpec == DictInit /\ [][DictNext]_vars

\* ------------------------------------------ set_sim_status, call by call
\* a call of set_sim_status, with the arguments and the files as the call
\* found them kept in lastCall
SetSimStatusCall(sim_name, status) ==
    /\ LET r == set_sim_status(info, config, sim_name, status)
       IN /\ info' = r.info
          /\ config' = r.config
          /\ raised' = r.raised
    /\ lastCall' = [op |-> "set_sim_status", sim_name |-> sim_name,
                    status |-> status, prev_loc |-> PrevLoc(info, sim_name),
                    before |-> [info |-> info, config |-> config]]
    /\ UNCHANGED <<cases, engineVars, docVars, folder, markers>>
    /\ UNCHANGED localVars

\* the config documents a study in the lists st can have: simulation_status
\* as in the lists, or still "running" for a case that the last write of
\* job_run_local put into sim_interrupted
LaggingConfigs(st) ==
    {cfg \in [DOMAIN st -> Statuses] :
        \A c \in DOMAIN st :
            \/ cfg[c] = st[c]
            \/ st[c] = "interrupted" /\ cfg[c] = "running"}

StatusInit ==
    /\ cases = 1..MaxCases
    /\ \E st \in [1..MaxCases -> Statuses] :
          /\ info = InfoOf(st)
          /\ config \in LaggingConfigs(st)
    /\ markers = {}
    /\ folder = [c \in 1..MaxCases |-> CaseFolder(c)]
    /\ lastCall = NoCall
    /\ raised = FALSE
    /\ EngineOff
    /\ DocsOff
    /\ IdleLocal

StatusNext ==
    \E n \in cases \cup {Ghost}, s \in Statuses : SetSimStatusCall(n, s)

StatusSpec == StatusInit /\ [][StatusNext]_vars

\* ------------------------------------------------------ initialize_folders
\* values of a parameter: a Python int n, a float of n millionths, or a
\* string that float() rejects
PyInt(n) == [kind |-> "int", n |-> n]
PyFloat(n) == [kind |-> "float", n |-> n]
PyStr(n) == [kind |-> "str", n |-> n]

MicroDigits == 6   \* decimals carried by the floats of the model

truncate == 5

NoDecimals == -1   \* a text without a decimal part

RECURSIVE Pow10(_)
Pow10(d) == IF d = 0 THEN 1 ELSE 10 * Pow10(d - 1)

\* "{:.5f}".format(number) for a float of n millionths that is not half-way
\* between two neighbours: the whole part and the 5 decimals
FixedPoint(n) ==
    LET unit == Pow10(MicroDigits - truncate)
        r == (n + unit \div 2) \div unit
    IN [whole |-> r \div Pow10(truncate), frac |-> r % Pow10(truncate)]

\* number_filename_formatter(number, alternative_idx): str(number) for an
\* int, the fixed-point text for what float() accepts, str(alternative_idx)
\* when float() raises
number_filename_formatter(number, alternative_idx) ==
    IF number.kind = "int" THEN [whole |-> number.n, frac |-> NoDecimals]
    ELSE IF number.kind = "float" THEN FixedPoint(number.n)
    ELSE [whole |-> alternative_idx, frac |-> NoDecimals]

\* "case_" + "_".join(c[1] + "_" + number_filename_formatter(c[2], c[4]))
FolderName(combination) ==
    [t \in DOMAIN combination |->
        [file_name |-> combination[t].name,
         text |-> number_filename_formatter(combination[t].value,
                                            combination[t].idx)]]

\* scan/test
TestFolder == <<[file_name |-> NoOne, text |-> [whole |-> NoDecimals, frac |-> NoDecimals]]>>

\* the config document of original_folder: every parameter at its template
\* value
TemplateDocument(params) ==
    [axis |-> [p \in DOMAIN params |-> PyInt(TemplateValue)], rest |-> "template"]

RECURSIVE UpdateParameters(_, _)
\* for c in combination: update_nested_dict(parameters, c[0], c[2])
UpdateParameters(doc, combination) ==
    IF combination = <<>> THEN doc
    ELSE LET c == Head(combination)
         IN UpdateParameters(
                update_nested_dict(doc, [doc.axis EXCEPT ![c.name] = c.value]),
                Tail(combination))

UpdateNeverRaises(params, combination) == FALSE

\* whether update_nested_dict raises for a tuple of the combination: resolves
\* is what the key chain of the parameter meets in the config document of
\* original_folder ("KeyError": an intermediate key is absent, "ValueError":
\* an intermediate value is not a dictionary)
UpdateRaises(params, combination) ==
    \E t \in DOMAIN combination : params[combination[t].name].resolves # "ok"

\* for key, item in self.test_case.items(): update_nested_dict(...)
TestCaseDocument(doc, overrides) ==
    IF overrides THEN [doc EXCEPT !.rest = "test"] ELSE doc

\* the in-memory simulation_info["sim_not_started"] after the turns so far
NotStartedNames(ys) == [k \in DOMAIN ys |-> FolderName(ys[k])]

\* one turn of the loop over yield_parameter_combinations() in
\* initialize_folders. The generator's ValueError or TypeError leaves the
\* method. A yielded case gets its folder, cloned from original_folder (a
\* flat folder here); if update_nested_dict raises the method is left with
\* the clone in place; otherwise the config document is written, the name
\* is appended to the in-memory sim_not_started and a row to the table, the
\* first turn making the test folder and taking its row from the document
\* of the test folder. When the generator ends simulation_info.yaml and the
\* other files of the study are written and folders_created is set
InitializeFolders ==
    /\ ~raised
    /\ lastCall.op \in {"none", "initialize_folders"}
    /\ GenStep
    /\ UNCHANGED <<markers, parameters_inspected, nested_dict, test_case>>
    /\ IF genPc' \in {"ValueError", "TypeError"}
       THEN /\ raised' = TRUE
            /\ lastCall' = [op |-> "initialize_folders", folders_created |-> FALSE]
            /\ UNCHANGED <<cases, info, config, folder, table>>
       ELSE IF genPc' = "loop"
       THEN LET combination == yielded'[Len(yielded')]
                foldername == FolderName(combination)
                clone == TemplateDocument(parameters_inspected)
                parameters == UpdateParameters(clone, combination)
                scan == Write(folder, foldername, parameters)
                test == TestCaseDocument(parameters, test_case)
            IN IF UpdateRaises(parameters_inspected, combination)
               THEN /\ folder' = Write(folder, foldername, clone)
                    /\ raised' = TRUE
                    /\ lastCall' = [op |-> "initialize_folders",
                                    folders_created |-> FALSE]
                    /\ UNCHANGED <<cases, info, config, table>>
               ELSE /\ cases' = cases \cup {foldername}
                    /\ folder' = IF yielded = <<>>
                                 THEN Write(scan, TestFolder, test)
                                 ELSE scan
                    /\ config' = Write(config, foldername, "not_started")
                    /\ table' = Append(table,
                                    [folder_name |-> foldername,
                                     parameters |-> IF yielded = <<>>
                                                    THEN test ELSE parameters])
                    /\ lastCall' = [op |-> "initialize_folders",
                                    folders_created |-> FALSE]
                    /\ raised' = FALSE
                    /\ info' = info
       ELSE /\ info' = [EmptyInfo EXCEPT !["not_started"] = NotStartedNames(yielded)]
            /\ lastCall' = [op |-> "initialize_folders", folders_created |-> TRUE]
            /\ raised' = FALSE
            /\ UNCHANGED <<cases, config, folder, table>>
    /\ UNCHANGED localVars

\* the values a parameter list is made of
FormatValues == {PyInt(0), PyInt(1), PyFloat(1), PyFloat(2), PyFloat(1500000), PyStr(0)}

\* the first parameter: of its own, or in group 0 with or without a method
FirstChoices ==
    [combination_idx : {-1, 0}, combination_method : {"individual", "none"},
     resolves : {"ok", "KeyError", "ValueError"}]

\* a second parameter, of its own or in group 0
SecondChoices ==
    [combination_idx : {-1, 0}, combination_method : {"product", "none"},
     n : {1, MaxValues}]

FirstParameter(c, vs) ==
    [combination_idx |-> c.combination_idx,
     combination_method |-> c.combination_method,
     values |-> vs,
     resolves |-> c.resolves]

SecondParameter(d) ==
    [combination_idx |-> d.combination_idx,
     combination_method |-> d.combination_method,
     values |-> [i \in 1..d.n |-> PyInt(ValuesOf(2, d.n)[i])],
     resolves |-> "ok"]

FolderInit ==
    /\ NoFolders
    /\ \E n \in 1..MaxValues : \E vs \in [1..n -> FormatValues] :
          /\ NoDup(vs)
          /\ \E c \in FirstChoices :
                \/ parameters_inspected = <<FirstParameter(c, vs)>>
                \/ \E d \in SecondChoices :
                      parameters_inspected
                          = <<FirstParameter(c, vs), SecondParameter(d)>>
    /\ combinations = <<>>
    /\ current_idx = <<>>
    /\ yielded = <<>>
    /\ genPc = "declared"
    /\ nested_dict = <<>>
    /\ table = <<>>
    /\ test_case \in BOOLEAN
    /\ IdleLocal

FolderNext ==
    \/ Construct
    \/ InitializeFolders

FolderSpec == FolderInit /\ [][FolderNext]_vars

\* the places <<pool key, position>> of the task lists q that hold case c
C21_Tasks(q, c) ==
    {t \in UNION {{<<k, j>> : j \in DOMAIN q[k]} : k \in DOMAIN q} :
        q[t[1]][t[2]].sim = c}

\* C21: for any non-empty gpu_available_list, job_run_local hands the i-th
\* not-started case (i from 0) to GPU gpu_available_list[i mod n], and every
\* not-started case is in the task lists exactly once.
C21_RoundRobin ==
    [][(GpuMode /\ driverPc = "start" /\ driverPc' # "start") =>
        /\ driverPc' = "wait"
        /\ \A i \in DOMAIN info["not_started"] :
              /\ Cardinality(C21_Tasks(queue', info["not_started"][i])) = 1
              /\ \A t \in C21_Tasks(queue', info["not_started"][i]) :
                    queue'[t[1]][t[2]].gpu
                        = gpuList[((i - 1) % Len(gpuList)) + 1]]_vars

\* the declared groups, and whether each has one of the known methods
C23_Groups ==
    SeqOfSet({parameters_inspected[p].combination_idx :
                 p \in DOMAIN parameters_inspected} \ {-1})

C23_Valid ==
    \A p \in DOMAIN parameters_inspected :
        parameters_inspected[p].combination_idx # -1
            => parameters_inspected[p].combination_method
                   \in {"individual", "meshgrid", "product"}

C23_Lens(idxs) == [m \in DOMAIN idxs |-> Len(parameters_inspected[idxs[m]].values)]

\* the length of the compound axis of group g
C23_GroupLen(g) ==
    LET idxs == Positions(parameters_inspected, g)
    IN IF parameters_inspected[idxs[1]].combination_method = "individual"
       THEN C23_Lens(idxs)[1]
       ELSE Prod(C23_Lens(idxs))

\* the axis lengths: the parameters of their own, then the groups
C23_AxisLens ==
    C23_Lens(Positions(parameters_inspected, -1))
        \o [i \in DOMAIN C23_Groups |-> C23_GroupLen(C23_Groups[i])]

C23_Tuple(y, p) == CHOOSE t \in Range(y) : t.name = p

\* the position on axis c of the yielded case y
C23_PosOf(y, c) ==
    IF c.kind = "single" THEN C23_Tuple(y, c.names).idx
    ELSE (CHOOSE f \in 1..c.n :
             \A k \in DOMAIN c.names :
                 C23_Tuple(y, c.names[k]).idx = c.id_equiv[f][k]) - 1

C23_Positions(y) == [j \in DOMAIN combinations |-> C23_PosOf(y, combinations[j])]

\* the cross-product of the axis positions
RECURSIVE C23_Cross(_)
C23_Cross(lens) ==
    IF lens = <<>> THEN {<<>>}
    ELSE {Append(f, x) : f \in C23_Cross(SubSeq(lens, 1, Len(lens) - 1)),
                         x \in 0..(lens[Len(lens)] - 1)}

C24_AxisNames ==
    LET singles == Positions(parameters_inspected, -1)
    IN [i \in DOMAIN singles |-> <<singles[i]>>]
           \o [i \in DOMAIN C23_Groups |->
                  Positions(parameters_inspected, C23_Groups[i])]

C24_NamesOf(c) == IF c.kind = "single" THEN <<c.names>> ELSE c.names

\* digit j of k in the mixed radix lens, axis 1 least significant
C24_Digit(k, lens, j) == (k \div Prod(SubSeq(lens, 1, j - 1))) % lens[j]

\* C24: the k-th yielded case (k from 0) is at the axis positions that are the
\* mixed-radix digits of k, first axis least significant, carries over axes
\* of length 1 included; the axes are the parameters with combination_idx -1
\* in declaration order followed by the groups in ascending combination_idx.
C24_MixedRadixOrder ==
    [][(yielded' # yielded /\ C23_Valid) =>
        /\ [j \in DOMAIN combinations' |-> C24_NamesOf(combinations'[j])]
               = C24_AxisNames
        /\ \A j \in DOMAIN combinations' :
              C23_PosOf(yielded'[Len(yielded')], combinations'[j])
                  = C24_Digit(Len(yielded), NValues(combinations'), j)]_vars

C24_Witness ==
    /\ genPc = "done"
    /\ NValues(combinations) = <<1, 1, 2>>
    /\ Len(yielded) = 2
    /\ C23_Positions(yielded[2]) = <<0, 0, 1>>

\* the groups all of whose members declare the method
C25_GroupsOf(method) ==
    {g \in Range(C23_Groups) :
        \A p \in Range(Positions(parameters_inspected, g)) :
            parameters_inspected[p].combination_method = method}

C25_Members(g) == Positions(parameters_inspected, g)

C25_SameLengths(g) ==
    \A m \in DOMAIN C25_Members(g) :
        C23_Lens(C25_Members(g))[m] = C23_Lens(C25_Members(g))[1]

\* the axes built for group g
C25_AxesOf(g) ==
    {j \in DOMAIN combinations :
        combinations[j].kind = "multi" /\ combinations[j].names = C25_Members(g)}

\* C25: an "individual" group whose members have n values each becomes one
\* compound axis of length n whose i-th entry holds the i-th value of every
\* member; members of differing lengths make the enumeration raise.
C25_IndividualZips ==
    \A g \in C25_GroupsOf("individual") :
        IF C25_SameLengths(g)
        THEN genPc \in {"loop", "done"} =>
                /\ Cardinality(C25_AxesOf(g)) = 1
                /\ \A j \in C25_AxesOf(g) :
                      /\ combinations[j].n = C23_Lens(C25_Members(g))[1]
                      /\ Len(combinations[j].values) = combinations[j].n
                      /\ \A i \in 1..combinations[j].n :
                            combinations[j].values[i]
                                = [m \in DOMAIN C25_Members(g) |->
                                      parameters_inspected[C25_Members(g)[m]].values[i]]
        ELSE genPc \in {"declared", "new", "ValueError"}

C25_Witness ==
    /\ genPc = "done"
    /\ \E g \in C25_GroupsOf("individual") :
          /\ Len(C25_Members(g)) = 2
          /\ C25_SameLengths(g)
          /\ \E j \in C25_AxesOf(g) : combinations[j].n = 2

\* the Cartesian product of the members' value lists
C26_Product(idxs) ==
    {t \in [DOMAIN idxs -> UNION {Range(parameters_inspected[idxs[m]].values) :
                                      m \in DOMAIN idxs}] :
        \A m \in DOMAIN idxs : t[m] \in Range(parameters_inspected[idxs[m]].values)}

C27_OneTuplePerParameter ==
    \A k \in DOMAIN yielded : \A p \in DOMAIN parameters_inspected :
        Cardinality({t \in DOMAIN yielded[k] : yielded[k][t].name = p}) = 1

\* the groups whose members do not all declare the same method
C29_MixedGroups ==
    {g \in Range(C23_Groups) :
        \E p, q \in Range(C25_Members(g)) :
            parameters_inspected[p].combination_method
                # parameters_inspected[q].combination_method}

\* C29: when the members of a group declare different combination_method
\* values the enumeration raises, and no case is enumerated.
C29_MixedMethodsRaise ==
    C29_MixedGroups # {} =>
        /\ genPc \in {"declared", "new", "ValueError"}
        /\ yielded = <<>>

C29_Witness ==
    /\ genPc = "ValueError"
    /\ C29_MixedGroups # {}
    /\ \A g \in C25_GroupsOf("individual") : C25_SameLengths(g)

\* C30: a study whose construction has succeeded has no group with
\* mismatched lengths or methods: such a group is reported by the
\* constructor and never by the enumeration.
C30_ReportedAtConstruction ==
    genPc # "declared" =>
        /\ C29_MixedGroups = {}
        /\ \A g \in C25_GroupsOf("individual") : C25_SameLengths(g)

\* initialize_folders has run to its end
C22_Completed ==
    /\ lastCall.op = "initialize_folders"
    /\ lastCall.folders_created

\* C22: after initialize_folders completes every enumerated case's folder
\* name is in sim_not_started, the four other lists are empty, and the case's
\* config document holds the case's value at every axis key and
\* simulation_status not_started.
C22_InitializedAsEnumerated ==
    C22_Completed =>
        /\ \A st \in Statuses \ {"not_started"} : info[st] = <<>>
        /\ \A k \in DOMAIN yielded :
              LET foldername == FolderName(yielded[k])
              IN /\ Contains(info["not_started"], foldername)
                 /\ foldername \in DOMAIN folder
                 /\ \A t \in DOMAIN yielded[k] :
                       folder[foldername].axis[yielded[k][t].name]
                           = yielded[k][t].value
                 /\ config[foldername] = "not_started"

\* C28: the file-name fragments of the positions of an axis with pairwise
\* distinct values are pairwise distinct, the positional index standing in
\* for a value that is not a number or that 5 decimals do not tell apart.
C28_FragmentsDistinct ==
    \A k1, k2 \in DOMAIN info["not_started"] : \A t \in DOMAIN yielded[k1] :
        yielded[k1][t].value # yielded[k2][t].value
            => info["not_started"][k1][t].text # info["not_started"][k2][t].text

\* the last call was set_sim_status(c, s) on a case c already in list s
C32_AlreadyThere ==
    /\ lastCall.op = "set_sim_status"
    /\ lastCall.prev_loc = lastCall.status

C35_Checked(c) ==
    Contains(info["not_started"], c) \/ Contains(info["running"], c)

\* C35: _update_remote_status moves a checked case that has a FINISHED_
\* marker and an ERROR_ or IO_ERROR_ marker to finished, and a checked case
\* whose only marker is IO_ERROR_ to error.
C35_FinishedMarkerWins ==
    [][lastCall'.op = "update_remote_status" =>
        \A c \in cases :
            /\ ( /\ C35_Checked(c)
                 /\ <<"FINISHED", c>> \in markers
                 /\ <<"ERROR", c>> \in markers \/ <<"IO_ERROR", c>> \in markers )
                   => /\ PrevLoc(info', c) = "finished"
                      /\ config'[c] = "finished"
            /\ ( /\ C35_Checked(c)
                 /\ <<"IO_ERROR", c>> \in markers
                 /\ <<"FINISHED", c>> \notin markers
                 /\ <<"ERROR", c>> \notin markers )
                   => /\ PrevLoc(info', c) = "error"
                      /\ config'[c] = "error"]_vars

C35_Witness ==
    /\ lastCall.op = "update_remote_status"
    /\ \E c, d \in cases :
          /\ markers = {<<"FINISHED", c>>, <<"IO_ERROR", c>>}
          /\ info["finished"] = <<c>>
          /\ info["not_started"] = <<d>>

\* C36: an _update_remote_status that directly follows
\* reset_simulations(restore_original=True), no marker written in between,
\* leaves every case the reset put into sim_not_started there.
C36_ResetNotUndone ==
    [][( /\ lastCall.op = "reset_simulations"
         /\ lastCall.restore_original
         /\ lastCall'.op = "update_remote_status" ) =>
            \A c \in cases :
                PrevLoc(info, c) = "not_started"
                    => PrevLoc(info', c) = "not_started"]_vars

\* C37: a case that is in running, finished, error or interrupted when
\* job_run_local loads simulation_info is in the same list of
\* simulation_info when job_run_local has returned.
C37_OthersKeepTheirList ==
    driverPc = "returned" =>
        \A c \in cases :
            PrevLoc(drvInfo, c) \in {"running", "finished", "error", "interrupted"}
                => PrevLoc(info, c) = PrevLoc(drvInfo, c)

\* job_run_local has made the shared lists and has not returned
C38_Running == driverPc \in {"wait", "setflag", "wait2", "raise", "final"}

\* C38: while job_run_local runs, whenever no worker holds the lock every
\* shared list has the members of the same list of simulation_info; and the
\* driver's final write of simulation_info from the shared lists moves no
\* case other than from running to interrupted.
C38_SharedMirrorsPersisted ==
    /\ [](C38_Running /\ lock = NoOne =>
             \A s \in Statuses : Range(shared[s]) = Range(info[s]))
    /\ [][(driverPc = "final" /\ driverPc' = "returned") =>
             \A c \in cases :
                 PrevLoc(info', c) # PrevLoc(info, c)
                     => /\ PrevLoc(info, c) = "running"
                        /\ PrevLoc(info', c) = "interrupted"]_vars

\* C39: after initialize_folders sim_not_started has no duplicate entry and
\* is as long as there are case folders under scan/ (the test folder apart),
\* also when two enumerated cases derive the same folder name.
C39_OneEntryPerFolder ==
    (lastCall.op = "initialize_folders" /\ lastCall.folders_created) =>
        /\ NoDup(info["not_started"])
        /\ Len(info["not_started"]) = Cardinality(DOMAIN folder \ {TestFolder})

\* the yielded cases for which update_nested_dict fails on some tuple
C31_FailedCases ==
    {k \in DOMAIN yielded :
        \E t \in DOMAIN yielded[k] :
            parameters_inspected[yielded[k][t].name].resolves # "ok"}

C40_RowsMirrorConfigs ==
    (lastCall.op = "initialize_folders" /\ lastCall.folders_created) =>
        /\ Len(table) = Len(yielded)
        /\ \A k \in DOMAIN table :
              /\ table[k].folder_name = FolderName(yielded[k])
              /\ table[k].parameters = folder[FolderName(yielded[k])]

C34_Absent == [kind |-> "absent"]

RECURSIVE C34_Lookup(_, _)
\* the value at the path in the dictionary d
C34_Lookup(d, path) ==
    IF path = <<>> THEN d
    ELSE IF d.kind # "dict" THEN C34_Absent
    ELSE IF Head(path) \notin DOMAIN d.items THEN C34_Absent
    ELSE C34_Lookup(d.items[Head(path)], Tail(path))

C34_Prefix(p, q) == Len(p) <= Len(q) /\ SubSeq(q, 1, Len(p)) = p

\* the intermediate segments of the call: the proper non-empty prefixes of keys
C34_Intermediates(keys) == {SubSeq(keys, 1, i) : i \in 1..(Len(keys) - 1)}

\* the error the call has to raise: that of the first intermediate segment
\* that is absent or not a dictionary
C34_Expected(d, keys) ==
    LET bad == {i \in 1..(Len(keys) - 1) :
                   C34_Lookup(d, SubSeq(keys, 1, i)).kind # "dict"}
    IN IF bad = {} THEN "none"
       ELSE LET i == CHOOSE x \in bad : \A y \in bad : x <= y
            IN IF C34_Lookup(d, SubSeq(keys, 1, i)).kind = "absent"
               THEN "KeyError" ELSE "ValueError"

\* C34: update_nested_dict raises the missing-key error when an intermediate
\* segment is absent and the not-a-mapping error when it is not a
\* dictionary, leaving the dictionary as it was; otherwise the leaf holds the
\* value, the dictionaries on the way have gained at most that key, and the
\* value at every other path is the one it was.
C34_UpdateSetsOnlyTheLeaf ==
    lastCall.op = "update_nested_dict" =>
        /\ lastCall.error = C34_Expected(lastCall.before, lastCall.keys)
        /\ lastCall.error # "none" => nested_dict = lastCall.before
        /\ lastCall.error = "none" =>
              /\ C34_Lookup(nested_dict, lastCall.keys) = lastCall.value
              /\ \A p \in C34_Intermediates(lastCall.keys) \cup {<<>>} :
                    /\ C34_Lookup(nested_dict, p).kind = "dict"
                    /\ DOMAIN C34_Lookup(nested_dict, p).items
                           = DOMAIN C34_Lookup(lastCall.before, p).items
                                 \cup {lastCall.keys[Len(p) + 1]}
              /\ \A q \in KeyChains :
                    (~C34_Prefix(q, lastCall.keys) /\ ~C34_Prefix(lastCall.keys, q))
                        => C34_Lookup(nested_dict, q) = C34_Lookup(lastCall.before, q)

C34_Witness ==
    /\ lastCall.op = "update_nested_dict"
    /\ lastCall.error = "none"
    /\ Len(lastCall.keys) = 2
    /\ C34_Lookup(lastCall.before, lastCall.keys) = C34_Absent
    /\ C34_Lookup(nested_dict, <<"a", "b">>) = Leaf("new")
    /\ C34_Lookup(nested_dict, <<"a", "a">>) = Leaf("x")
    /\ C34_Lookup(nested_dict, <<"b">>) = Leaf("y")

\* C33: whatever run subcommand is given a run config whose section holds
\* keywords of its executor, the keyword arguments the command line passes
\* (the section plus run_test) leave nothing behind for the executor's check
\* of unexpected keywords, and the call does not raise.
C33_KeywordsAccepted ==
    (/\ lastCall.op = "cli"
     /\ ~({"venv_path", "requirements_path"} \subseteq lastCall.kwargs))
        => (lastCall.unexpected = {} /\ ~raised)

====
